---- MODULE Spec2Model ----
(***************************************************************************)
(* type-assurance: the runtime schema matcher (is / diff / assert) and its *)
(* combinators (typeGuard / union / optional / record / unknown).          *)
(*                                                                         *)
(* JavaScript values are records tagged by t.  A schema is a JavaScript    *)
(* value as well: the matcher dispatches on it with ===, Array.isArray and *)
(* typeof exactly as the source does.  A call either returns a value or    *)
(* throws; both outcomes are modelled (Ret / Throw).                       *)
(***************************************************************************)
EXTENDS Integers, Sequences, FiniteSets, TLC

VARIABLES op, value, schema, path, out, heap, stack

vars == <<op, value, schema, path, out, heap, stack>>

----------------------------------------------------------------------------
(* Bounds of the model. *)

\* longest array value and longest array schema that are enumerated
MaxLen == 3
\* longest array schema that is enumerated
MaxTuple == 2
\* most schemas handed to one union(...) call
MaxUnion == 2

----------------------------------------------------------------------------
(* JavaScript values. *)

Undefined == [t |-> "undefined"]
Null == [t |-> "null"]
Str(s) == [t |-> "string", s |-> s]
Num(n) == [t |-> "number", n |-> n]
NaN == [t |-> "nan"]
Bool(b) == [t |-> "boolean", b |-> b]
Sym(i) == [t |-> "symbol", id |-> i]
\* an empty slot of a sparse array (not a value: v[i] reads undefined)
Hole == [t |-> "hole"]
\* an accessor property whose getter throws (not a value: v[k] throws)
Getter == [t |-> "getter"]
Arr(items) == [t |-> "array", items |-> items]
\* entries: the own enumerable string-keyed properties, in Object.keys order;
\* class: the constructor whose prototype heads the prototype chain
Obj(class, entries) == [t |-> "object", class |-> class, entries |-> entries]
\* a function: id is its identity, name its .name (a sequence of characters),
\* proto is whether fn.prototype?.constructor === fn, call what calling it does
Fn(id, name, proto, call) ==
    [t |-> "function", id |-> id, name |-> name, proto |-> proto, call |-> call]

\* the errors that a throwing predicate and a throwing getter of the inputs throw
PredicateError == [name |-> "Error", message |-> "thrown by the predicate"]
GetterError == [name |-> "Error", message |-> "thrown by the getter"]

\* an outcome of evaluating code: a returned value or a thrown error
Ret(v) == [thrown |-> FALSE, val |-> v]
Throw(e) == [thrown |-> TRUE, err |-> e]

\* typeof v
TypeOf(v) ==
    CASE v.t = "null" -> "object"
      [] v.t = "array" -> "object"
      [] v.t = "nan" -> "number"
      [] OTHER -> v.t

\* ToBoolean(v): the truthiness used by !value and by t(...)
ToBoolean(v) ==
    CASE v.t = "undefined" -> FALSE
      [] v.t = "null" -> FALSE
      [] v.t = "nan" -> FALSE
      [] v.t = "boolean" -> v.b
      [] v.t = "number" -> v.n # 0
      [] v.t = "string" -> v.s # ""
      [] OTHER -> TRUE

\* a == b in place of a === b: null and undefined equal each other
StrictEq_loose(a, b) ==
    CASE a.t \in {"null", "undefined"} /\ b.t \in {"null", "undefined"} -> TRUE
      [] a.t = "nan" \/ b.t = "nan" -> FALSE
      [] a.t # b.t -> FALSE
      [] a.t \in {"array", "object"} -> FALSE
      [] a.t = "function" -> a.id = b.id
      [] OTHER -> a = b

\* a === b: primitives by value (NaN equals nothing), symbols, functions and
\* objects by identity.  Objects and arrays of the model carry no identity;
\* === on them is reached only with a primitive or symbol on the schema side.
StrictEq(a, b) ==
    CASE a.t = "nan" \/ b.t = "nan" -> FALSE
      [] a.t # b.t -> FALSE
      [] a.t \in {"array", "object"} -> FALSE
      [] a.t = "function" -> a.id = b.id
      [] OTHER -> a = b

Digits == <<"0", "1", "2", "3", "4", "5", "6", "7", "8", "9">>

\* `${i}` for an array index: its decimal digits
RECURSIVE IntToStr(_)
IntToStr(n) ==
    IF n < 10 THEN Digits[n + 1]
    ELSE IntToStr(n \div 10) \o Digits[(n % 10) + 1]

Lower == <<"a", "b", "c", "d", "e", "f", "g", "h", "i", "j", "k", "l", "m",
           "n", "o", "p", "q", "r", "s", "t", "u", "v", "w", "x", "y", "z">>
Upper == <<"A", "B", "C", "D", "E", "F", "G", "H", "I", "J", "K", "L", "M",
           "N", "O", "P", "Q", "R", "S", "T", "U", "V", "W", "X", "Y", "Z">>

\* c.toUpperCase() for a string of at most one character
ToUpperCase(c) ==
    IF \E i \in 1..Len(Lower) : Lower[i] = c
    THEN Upper[CHOOSE i \in 1..Len(Lower) : Lower[i] = c]
    ELSE c

\* name.charAt(0): the first character, "" for the empty name
CharAt0(name) == IF Len(name) = 0 THEN "" ELSE name[1]

\* Array.isArray(v)
IsArray(v) == v.t = "array"

\* the prototype chain of v, as the ids of the constructors whose prototype is on it
ProtoChain(v) ==
    CASE v.t = "array" -> {"Array", "Object"}
      [] v.t = "object" -> {v.class, "Object"}
      [] v.t = "function" -> {"Function", "Object"}
      [] OTHER -> {}

\* v instanceof f, for a function f
InstanceOf(v, f) == f.id \in ProtoChain(v)

\* the index a property key names, -1 when it is no canonical array index below n
IndexOf(k, n) ==
    IF \E i \in 0..(n - 1) : IntToStr(i) = k
    THEN CHOOSE i \in 0..(n - 1) : IntToStr(i) = k
    ELSE -1

\* value[k]: an outcome, since reading a property of undefined or null throws
\* a TypeError and a getter may throw.  Inherited properties (and the own
\* properties of primitives) are not modelled; no key of the model names one.
Get(v, k) ==
    IF v.t \in {"undefined", "null"}
    THEN Throw([name |-> "TypeError", message |-> "Cannot read properties"])
    ELSE IF v.t \notin {"array", "object"} THEN Ret(Undefined)
    ELSE IF v.t = "array"
    THEN IF k = "length" THEN Ret(Num(Len(v.items)))
         ELSE LET i == IndexOf(k, Len(v.items))
              IN IF i < 0 \/ v.items[i + 1] = Hole THEN Ret(Undefined)
                 ELSE Ret(v.items[i + 1])
    ELSE IF \E j \in 1..Len(v.entries) : v.entries[j][1] = k
         THEN LET j == CHOOSE j \in 1..Len(v.entries) : v.entries[j][1] = k
                  p == v.entries[j][2]
              IN IF p = Getter THEN Throw(GetterError) ELSE Ret(p)
         ELSE Ret(Undefined)

\* Object.keys(o) for an object or array
ObjectKeys(o) ==
    IF o.t = "array"
    THEN LET present == {i \in 1..Len(o.items) : o.items[i] # Hole}
             RECURSIVE ks(_)
             ks(i) == IF i > Len(o.items) THEN <<>>
                      ELSE (IF i \in present THEN <<IntToStr(i - 1)>> ELSE <<>>)
                           \o ks(i + 1)
         IN ks(1)
    ELSE [j \in 1..Len(o.entries) |-> o.entries[j][1]]

----------------------------------------------------------------------------
(* The schema values the source names. *)

\* the primitive markers: the global String, Number and Boolean constructors
String == Fn("String", <<"S", "t", "r", "i", "n", "g">>, TRUE, [k |-> "native"])
Number == Fn("Number", <<"N", "u", "m", "b", "e", "r">>, TRUE, [k |-> "native"])
Boolean == Fn("Boolean", <<"B", "o", "o", "l", "e", "a", "n">>, TRUE, [k |-> "native"])

\* the built-in classes Date and Array, and a user class Foo (class Foo {...})
Date == Fn("Date", <<"D", "a", "t", "e">>, TRUE, [k |-> "native"])
Array == Fn("Array", <<"A", "r", "r", "a", "y">>, TRUE, [k |-> "native"])
Foo == Fn("Foo", <<"F", "o", "o">>, TRUE, [k |-> "class"])

\* (v: unknown) => typeof v === ty, an arrow function (no prototype, name "")
TypeofIs(ty) == Fn("arrow", <<>>, FALSE, [k |-> "typeof", type |-> ty])
\* function isArray(v) { return Array.isArray(v) }, a function declaration
isArray == Fn("isArray", <<"i", "s", "A", "r", "r", "a", "y">>, TRUE, [k |-> "isArray"])
\* Array.isArray itself: a built-in method, it has no prototype property
ArrayIsArray == Fn("Array.isArray", <<"i", "s", "A", "r", "r", "a", "y">>, FALSE, [k |-> "isArray"])

----------------------------------------------------------------------------
(* The matcher. *)

RECURSIVE diff(_, _, _)
RECURSIVE is(_, _)
RECURSIVE Call(_, _)
RECURSIVE flatMapItems(_, _, _, _, _)
RECURSIVE flatMapKeys(_, _, _, _, _)
RECURSIVE someSchema(_, _, _)
RECURSIVE everyEntry(_, _, _, _)
RECURSIVE is_index(_, _)
RECURSIVE everyItem_index(_, _, _, _)
RECURSIVE everyKey_index(_, _, _, _)
RECURSIVE someSchema_index(_, _, _)

\* const t = (v: boolean) => (v ? [] : [path])
t(v, p) == IF v THEN <<>> ELSE <<p>>

\* isConstructor(fn)
isConstructor(fn) ==
    /\ TypeOf(fn) = "function"
    /\ fn.proto
    /\ CharAt0(fn.name) = ToUpperCase(CharAt0(fn.name))

\* schema[i] for an array schema: undefined past the end and for an empty slot
SchemaAt(sch, i) ==
    IF i < Len(sch.items) /\ sch.items[i + 1] # Hole THEN sch.items[i + 1]
    ELSE Undefined

\* the schema the element at array position i (1-based) is matched against,
\* descending with the array schema itself in place of its element schema
childSchema_same(sch, tuple, i) == sch

\* the schema the element at array position i (1-based) is matched against:
\* schema[i] of a tuple, schema[0] of a homogeneous array
childSchema(sch, tuple, i) == SchemaAt(sch, IF tuple THEN i - 1 ELSE 0)

\* itemPath counting the positions from 1
itemPath_oneBased(p, i) == p \o "[" \o IntToStr(i) \o "]"

\* `${path}[${i}]` for the element at array position i (1-based)
itemPath(p, i) == p \o "[" \o IntToStr(i - 1) \o "]"

\* `${path}.${k}`
keyPath(p, k) == p \o "." \o k

\* Array.prototype.flatMap's step: the callback's result d for one element,
\* followed by the results for the rest; a throw of the callback ends it
Concat(d, rest) ==
    IF d.thrown THEN d
    ELSE IF rest.thrown THEN rest
    ELSE Ret(d.val \o rest.val)

\* value.flatMap((v, i) => diff(v, tuple ? schema[i] : schema[0], `${path}[${i}]`)),
\* from array position i (1-based) on: flatMap skips the empty slots of value
flatMapItems(items, sch, p, tuple, i) ==
    IF i > Len(items) THEN Ret(<<>>)
    ELSE Concat(IF items[i] = Hole THEN Ret(<<>>)
                ELSE diff(items[i], childSchema(sch, tuple, i), itemPath(p, i)),
                flatMapItems(items, sch, p, tuple, i + 1))

\* if (mismatch.length) return mismatch; return t(value.length === schema.length)
tupleResult(mismatch, v, sch, p) ==
    IF mismatch.thrown THEN mismatch
    ELSE IF Len(mismatch.val) # 0 THEN mismatch
    ELSE Ret(t(Len(v.items) = Len(sch.items), p))

\* diffTuple with the length compared before the contents
diffTuple_lengthFirst(v, sch, p) ==
    IF Len(v.items) # Len(sch.items) THEN Ret(t(FALSE, p))
    ELSE flatMapItems(v.items, sch, p, TRUE, 1)

\* the tuple branch: schema.length > 1
diffTuple(v, sch, p) ==
    tupleResult(flatMapItems(v.items, sch, p, TRUE, 1), v, sch, p)

\* diffHomogeneous with schema[i] in place of schema[0]
diffHomogeneous_positional(v, sch, p) == flatMapItems(v.items, sch, p, TRUE, 1)

\* the homogeneous branch: schema.length === 1
diffHomogeneous(v, sch, p) == flatMapItems(v.items, sch, p, FALSE, 1)

\* the Array.isArray(schema) branch
diffArray(v, sch, p) ==
    IF ~IsArray(v) THEN Ret(t(FALSE, p))
    ELSE IF Len(sch.items) = 0 THEN Ret(t(TRUE, p))
    ELSE IF Len(sch.items) > 1 THEN diffTuple(v, sch, p)
    ELSE diffHomogeneous(v, sch, p)

\* diff(value[k], schema[k], `${path}.${k}`), given the outcomes vk and sk of
\* reading value[k] and schema[k]
diffProp(vk, sk, p) ==
    IF vk.thrown THEN vk
    ELSE IF sk.thrown THEN sk
    ELSE diff(vk.val, sk.val, p)

\* Object.keys(schema).flatMap((k) => diff(value[k], schema[k], `${path}.${k}`)),
\* from key position i on
flatMapKeys(v, sch, p, keys, i) ==
    IF i > Len(keys) THEN Ret(<<>>)
    ELSE Concat(diffProp(Get(v, keys[i]), Get(sch, keys[i]), keyPath(p, keys[i])),
                flatMapKeys(v, sch, p, keys, i + 1))

\* diffObject without the guard on the value
diffObject_noGuard(v, sch, p) == flatMapKeys(v, sch, p, ObjectKeys(sch), 1)

\* diffObject walking the keys of the value in place of the keys of the schema
diffObject_valueKeys(v, sch, p) ==
    IF ~ToBoolean(v) \/ TypeOf(v) # "object" THEN Ret(t(FALSE, p))
    ELSE flatMapKeys(v, sch, p, ObjectKeys(v), 1)

\* the typeof schema === "object" && schema branch
diffObject(v, sch, p) ==
    IF ~ToBoolean(v) \/ TypeOf(v) # "object" THEN Ret(t(FALSE, p))
    ELSE flatMapKeys(v, sch, p, ObjectKeys(sch), 1)

\* t(r) for the outcome r of calling a predicate
tOfCall(r, p) == IF r.thrown THEN r ELSE Ret(t(ToBoolean(r.val), p))

\* the typeof schema === "function" branch
diffFunction(v, sch, p) ==
    IF isConstructor(sch) THEN Ret(t(InstanceOf(v, sch), p))
    ELSE tOfCall(Call(sch, v), p)

\* diff with the constructor rule tried before the marker rule
diff_constructorFirst(v, sch, p) ==
    IF IsArray(sch) THEN diffArray(v, sch, p)
    ELSE IF TypeOf(sch) = "object" /\ ToBoolean(sch) THEN diffObject(v, sch, p)
    ELSE IF TypeOf(sch) = "function" THEN diffFunction(v, sch, p)
    ELSE Ret(t(StrictEq(v, sch), p))

\* diff(value, schema, path): the mismatch paths, or the error thrown
diff(v, sch, p) ==
    IF StrictEq(sch, String) THEN Ret(t(TypeOf(v) = "string", p))
    ELSE IF StrictEq(sch, Number) THEN Ret(t(TypeOf(v) = "number", p))
    ELSE IF StrictEq(sch, Boolean) THEN Ret(t(TypeOf(v) = "boolean", p))
    ELSE IF IsArray(sch) THEN diffArray(v, sch, p)
    ELSE IF TypeOf(sch) = "object" /\ ToBoolean(sch) THEN diffObject(v, sch, p)
    ELSE IF TypeOf(sch) = "function" THEN diffFunction(v, sch, p)
    ELSE Ret(t(StrictEq(v, sch), p))

\* the default of diff's path parameter
RootPath == "value"

\* d.length <= 1 for the outcome d of diff
boolOfLen1(d) == IF d.thrown THEN d ELSE Ret(Len(d.val) <= 1)

\* d.length === 0 for the outcome d of diff
isEmpty(d) == IF d.thrown THEN d ELSE Ret(Len(d.val) = 0)

\* is with diff(value, schema).length <= 1
is_atMostOne(v, sch) == boolOfLen1(diff(v, sch, RootPath))

\* is(value, schema): diff(value, schema).length === 0
is(v, sch) == isEmpty(diff(v, sch, RootPath))

\* Array.prototype.some's step: it stops at the first true result
someStep(r, rest) ==
    IF r.thrown THEN r
    ELSE IF r.val THEN Ret(TRUE)
    ELSE rest

\* Array.prototype.every's step: it stops at the first false result
everyStep(r, rest) ==
    IF r.thrown THEN r
    ELSE IF ~r.val THEN Ret(FALSE)
    ELSE rest

\* someSchema with every in place of some
someSchema_every(schemas, v, i) ==
    IF i > Len(schemas) THEN Ret(TRUE)
    ELSE everyStep(is(v, schemas[i]), someSchema(schemas, v, i + 1))

\* schemas.some((schema) => is(v, schema)), from position i on
someSchema(schemas, v, i) ==
    IF i > Len(schemas) THEN Ret(FALSE)
    ELSE someStep(is(v, schemas[i]), someSchema(schemas, v, i + 1))

\* is(value[k], valueSchema), given the outcome vk of reading value[k]
isProp(vk, valueSchema) == IF vk.thrown THEN vk ELSE is(vk.val, valueSchema)

\* record's check of the own enumerable entries of the container v, from entry
\* position i on: the key against keySchema and the value against valueSchema
everyEntry(keySchema, valueSchema, v, i) ==
    IF i > Len(v.entries) THEN Ret(TRUE)
    ELSE everyStep(isProp(Get(v, v.entries[i][1]), valueSchema),
             everyStep(is(Str(v.entries[i][1]), keySchema),
                       everyEntry(keySchema, valueSchema, v, i + 1)))

----------------------------------------------------------------------------
(* The matcher of src/src/index.ts, which has no diff: is computes the      *)
(* boolean directly.  Its results are JavaScript values, since is returns   *)
(* what a predicate schema returns as it is.                                *)

\* isConstructor of src/src/index.ts: the name of the function is not looked at
isConstructor_index(fn) == TypeOf(fn) = "function" /\ fn.proto

\* Array.prototype.every's step on JavaScript values: false at the first falsy result
everyStepJS(r, rest) ==
    IF r.thrown THEN r
    ELSE IF ~ToBoolean(r.val) THEN Ret(Bool(FALSE))
    ELSE rest

\* Array.prototype.some's step on JavaScript values: true at the first truthy result
someStepJS(r, rest) ==
    IF r.thrown THEN r
    ELSE IF ToBoolean(r.val) THEN Ret(Bool(TRUE))
    ELSE rest

\* value.every((v, i) => is(v, tuple ? schema[i] : schema[0])), from array
\* position i on: every skips the empty slots of value
everyItem_index(items, sch, tuple, i) ==
    IF i > Len(items) THEN Ret(Bool(TRUE))
    ELSE everyStepJS(IF items[i] = Hole THEN Ret(Bool(TRUE))
                     ELSE is_index(items[i], SchemaAt(sch, IF tuple THEN i - 1 ELSE 0)),
                     everyItem_index(items, sch, tuple, i + 1))

\* is(value[k], schema[k]), given the outcomes vk and sk of reading them
isProp_index(vk, sk) ==
    IF vk.thrown THEN vk
    ELSE IF sk.thrown THEN sk
    ELSE is_index(vk.val, sk.val)

\* Object.keys(schema).every((k) => is(value[k], schema[k])), from key position i on
everyKey_index(v, sch, keys, i) ==
    IF i > Len(keys) THEN Ret(Bool(TRUE))
    ELSE everyStepJS(isProp_index(Get(v, keys[i]), Get(sch, keys[i])),
                     everyKey_index(v, sch, keys, i + 1))

\* isArray_index with no comparison of the lengths for a tuple
isArray_index_noLength(v, sch) ==
    IF ~IsArray(v) THEN Ret(Bool(FALSE))
    ELSE IF Len(sch.items) = 0 THEN Ret(Bool(TRUE))
    ELSE everyItem_index(v.items, sch, Len(sch.items) > 1, 1)

\* the Array.isArray(schema) branch: a tuple compares the length first
isArray_index(v, sch) ==
    IF ~IsArray(v) THEN Ret(Bool(FALSE))
    ELSE IF Len(sch.items) = 0 THEN Ret(Bool(TRUE))
    ELSE IF Len(sch.items) > 1
         THEN IF Len(v.items) = Len(sch.items)
              THEN everyItem_index(v.items, sch, TRUE, 1)
              ELSE Ret(Bool(FALSE))
    ELSE everyItem_index(v.items, sch, FALSE, 1)

\* the typeof schema === "object" && schema branch
isObject_index(v, sch) ==
    IF ~ToBoolean(v) \/ TypeOf(v) # "object" THEN Ret(Bool(FALSE))
    ELSE everyKey_index(v, sch, ObjectKeys(sch), 1)

\* is(value, schema) of src/src/index.ts
is_index(v, sch) ==
    IF StrictEq(sch, String) THEN Ret(Bool(TypeOf(v) = "string"))
    ELSE IF StrictEq(sch, Number) THEN Ret(Bool(TypeOf(v) = "number"))
    ELSE IF StrictEq(sch, Boolean) THEN Ret(Bool(TypeOf(v) = "boolean"))
    ELSE IF IsArray(sch) THEN isArray_index(v, sch)
    ELSE IF TypeOf(sch) = "object" /\ ToBoolean(sch) THEN isObject_index(v, sch)
    ELSE IF TypeOf(sch) = "function"
         THEN IF isConstructor_index(sch) THEN Ret(Bool(InstanceOf(v, sch)))
              ELSE Call(sch, v)
    ELSE Ret(Bool(StrictEq(v, sch)))

\* schemas.some((schema) => is(v, schema)) of src/src/index.ts, from position i on
someSchema_index(schemas, v, i) ==
    IF i > Len(schemas) THEN Ret(Bool(FALSE))
    ELSE someStepJS(is_index(v, schemas[i]), someSchema_index(schemas, v, i + 1))

\* typeGuard, union and optional of src/src/index.ts: optional sets no tag
typeGuard_index(sch) == Fn("arrow", <<>>, FALSE, [k |-> "typeGuard@index", schema |-> sch])
union_index(schemas) == Fn("arrow", <<>>, FALSE, [k |-> "union@index", schemas |-> schemas])
optional_index(sch) == union_index(<<sch, Undefined>>)

\* if (!is(value, schema)) throw new TypeError()
assertResult_index(r) ==
    IF r.thrown THEN r
    ELSE IF ~ToBoolean(r.val) THEN Throw([name |-> "TypeError", message |-> ""])
    ELSE Ret(Undefined)

\* assert(value, schema) of src/src/index.ts
assert_index(v, sch) == assertResult_index(is_index(v, sch))

----------------------------------------------------------------------------
(* Calling a function value. *)

\* the boolean a guard returns, as a JavaScript value
boolOf(r) == IF r.thrown THEN r ELSE Ret(Bool(r.val))

\* the predicate record(keySchema, valueSchema) returns, applied to v: v is a
\* key/value container (a non-null object that is no array) and every entry
\* conforms
recordGuard(keySchema, valueSchema, v) ==
    IF ~ToBoolean(v) \/ TypeOf(v) # "object" \/ IsArray(v) THEN Ret(Bool(FALSE))
    ELSE boolOf(everyEntry(keySchema, valueSchema, v, 1))

\* the guard of typeGuard with the arguments of is swapped
typeGuardCall_swapped(sch, v) == boolOf(is(sch, v))

\* the guard typeGuard(schema) returns, applied to v: is(value, schema)
typeGuardCall(sch, v) == boolOf(is(v, sch))

\* calling the function f with the one argument v: the JavaScript value it
\* returns, or the error it throws
Call(f, v) ==
    CASE f.call.k = "typeof" -> Ret(Bool(TypeOf(v) = f.call.type))
      [] f.call.k = "isArray" -> Ret(Bool(IsArray(v)))
      [] f.call.k = "unknown" -> Ret(Bool(TRUE))
      [] f.call.k = "typeGuard" -> typeGuardCall(f.call.schema, v)
      [] f.call.k = "union" -> boolOf(someSchema(f.call.schemas, v, 1))
      [] f.call.k = "record" -> recordGuard(f.call.key, f.call.val, v)
      [] f.call.k = "typeGuard@index" -> is_index(v, f.call.schema)
      [] f.call.k = "union@index" -> someSchema_index(f.call.schemas, v, 1)
      [] f.call.k = "identity" -> Ret(v)
      [] f.call.k = "throws" -> Throw(PredicateError)
      [] f.call.k = "class" ->
            Throw([name |-> "TypeError", message |-> "Class constructor cannot be invoked without 'new'"])

\* typeGuard(schema)
typeGuard(sch) == Fn("arrow", <<>>, FALSE, [k |-> "typeGuard", schema |-> sch])

\* union(...schemas)
union(schemas) == Fn("arrow", <<>>, FALSE, [k |-> "union", schemas |-> schemas])

\* optional without undefined among the schemas of its union
optional_required(sch) == union(<<sch>>) @@ [optional |-> TRUE]

\* optional(schema): union(schema, undefined) with the property optional set on it
optional(sch) == union(<<sch, Undefined>>) @@ [optional |-> TRUE]

\* record(keySchema, valueSchema)
record(keySchema, valueSchema) ==
    Fn("arrow", <<>>, FALSE, [k |-> "record", key |-> keySchema, val |-> valueSchema])

\* function unknown(v) { return true }
unknown == Fn("unknown", <<"u", "n", "k", "n", "o", "w", "n">>, TRUE, [k |-> "unknown"])

\* the message of the TypeError that assert throws
Message(p) == p \o " does not match the schema."

\* assertResult reporting the last mismatch in place of the first
assertResult_lastPath(mismatch) ==
    IF mismatch.thrown THEN mismatch
    ELSE IF Len(mismatch.val) # 0
         THEN Throw([name |-> "TypeError", message |-> Message(mismatch.val[Len(mismatch.val)])])
    ELSE Ret(Undefined)

\* if (mismatch.length) throw new TypeError(`${mismatch[0]} does not match the schema.`)
assertResult(mismatch) ==
    IF mismatch.thrown THEN mismatch
    ELSE IF Len(mismatch.val) # 0
         THEN Throw([name |-> "TypeError", message |-> Message(mismatch.val[1])])
    ELSE Ret(Undefined)

\* assert(value, schema): returns undefined or throws
assert(v, sch) == assertResult(diff(v, sch, RootPath))

----------------------------------------------------------------------------
(* The type TypeFromSchema<T> gives a schema.  Types are records tagged by  *)
(* k; Inhabits says which values a type holds.                              *)

TString == [k |-> "string"]
TNumber == [k |-> "number"]
TBoolean == [k |-> "boolean"]
\* the singleton type of a literal: "foo", 42, true, null, undefined
TLiteral(v) == [k |-> "literal", v |-> v]
\* readonly [T1, ..., Tn]
TTuple(items) == [k |-> "tuple", items |-> items]
\* { k1: T1; k2?: T2; ... }: props holds <<key, type, optional>>
TObject(props) == [k |-> "object", props |-> props]
\* T1 | T2 | ...
TUnion(members) == [k |-> "union", members |-> members]
\* the instance type of a class
TInstance(id) == [k |-> "instance", class |-> id]
\* typeof String, typeof Date, ...: the type of a constructor
TConstructor(f) == [k |-> "constructor", f |-> f]
\* (v: unknown) => v is R, with { [OPTIONAL]: true } when tagged
TGuard(R, tagged) == [k |-> "guard", R |-> R, tagged |-> tagged]

RECURSIVE SchemaType(_)
RECURSIVE TypeFromSchema(_)

\* TypeFromSchema<T[number]> for the schemas handed to union
UnionResult(schemas) ==
    TUnion([i \in 1..Len(schemas) |-> TypeFromSchema(SchemaType(schemas[i]))])

\* the type T inferred for a schema written in a call of is, diff or
\* typeGuard, whose type parameter is const: an array literal is a readonly
\* tuple, a literal keeps its literal type, a guard has its declared type
SchemaType(s) ==
    IF IsArray(s) THEN TTuple([i \in 1..Len(s.items) |-> SchemaType(s.items[i])])
    ELSE IF s.t = "object"
         THEN TObject([i \in 1..Len(s.entries) |->
                          <<s.entries[i][1], SchemaType(s.entries[i][2]), FALSE>>])
    ELSE IF s.t = "function"
         THEN IF s.call.k = "union"
              THEN TGuard(UnionResult(s.call.schemas), "optional" \in DOMAIN s)
              ELSE TConstructor(s)
    ELSE TLiteral(s)

\* OptionalProps<T> and RequiredProps<T>: T[K] extends { [OPTIONAL]: true }
IsTagged(T) == T.k = "guard" /\ T.tagged

\* TypeFromSchema<T>
TypeFromSchema(T) ==
    IF T.k = "constructor" /\ StrictEq(T.f, String) THEN TString
    ELSE IF T.k = "constructor" /\ StrictEq(T.f, Number) THEN TNumber
    ELSE IF T.k = "constructor" /\ StrictEq(T.f, Boolean) THEN TBoolean
    ELSE IF T.k = "tuple"
         THEN TTuple([i \in 1..Len(T.items) |-> TypeFromSchema(T.items[i])])
    ELSE IF T.k = "object"
         THEN TObject([i \in 1..Len(T.props) |->
                          <<T.props[i][1], TypeFromSchema(T.props[i][2]),
                            IsTagged(T.props[i][2])>>])
    ELSE IF T.k = "constructor" THEN TInstance(T.f.id)
    ELSE IF T.k = "guard" THEN T.R
    ELSE T

\* value[k] for a value of an object type: undefined where there is none
PropOf(v, k) == IF v.t \in {"array", "object"} THEN Get(v, k).val ELSE Undefined

\* whether the value v is of the type T
RECURSIVE Inhabits(_, _)
Inhabits(v, T) ==
    CASE T.k = "string" -> TypeOf(v) = "string"
      [] T.k = "number" -> TypeOf(v) = "number"
      [] T.k = "boolean" -> TypeOf(v) = "boolean"
      [] T.k = "literal" -> StrictEq(v, T.v)
      [] T.k = "tuple" ->
            /\ IsArray(v)
            /\ Len(v.items) = Len(T.items)
            /\ \A i \in 1..Len(T.items) : Inhabits(v.items[i], T.items[i])
      [] T.k = "object" ->
            /\ v.t \notin {"undefined", "null"}
            /\ \A i \in 1..Len(T.props) :
                  \/ T.props[i][3] /\ PropOf(v, T.props[i][1]) = Undefined
                  \/ Inhabits(PropOf(v, T.props[i][1]), T.props[i][2])
      [] T.k = "union" -> \E i \in 1..Len(T.members) : Inhabits(v, T.members[i])
      [] T.k = "instance" -> T.class \in ProtoChain(v)
      [] OTHER -> FALSE

----------------------------------------------------------------------------
(* The inputs: the values and schemas the operations are called with. *)

\* the sequences over S of length at most n
SeqsUpTo(S, n) == UNION {[1..k -> S] : k \in 0..n}

\* the property lists over keys K and values V: no key twice, any key order
EntrySeqs(K, V) ==
    {e \in SeqsUpTo(K \X V, Cardinality(K)) :
        \A i, j \in 1..Len(e) : e[i][1] = e[j][1] => i = j}

Keys == {"foo", "bar"}

\* new String("foo"), new Date() and new Foo()
WrapperString == Obj("String", << <<"0", Str("f")>>, <<"1", Str("o")>>, <<"2", Str("o")>> >>)
DateInst == Obj("Date", <<>>)
FooInst == Obj("Foo", << <<"bar", Num(42)>> >>)

PrimValues ==
    {Undefined, Null, Str("foo"), Str("42"), Str(""), Str("abc"), Num(42), Num(0), NaN,
     Bool(TRUE), Bool(FALSE)}

AtomValues == PrimValues \cup {Sym(1), WrapperString, DateInst, FooInst, isArray}

ItemValues == {Str("A"), Num(2), Hole}

ArrayValues ==
    {Arr(x) : x \in SeqsUpTo(ItemValues, MaxLen)}
    \cup {Arr(<<Str("A"), Num(2), Undefined>>), Arr(<<Str("A"), Num(2), DateInst>>),
          Arr(<<Num(1), Num(2), Str("3")>>), Arr(<<Str("A"), Undefined>>)}

PropValues == {Str("foo"), Num(1), Undefined}

ObjectValues == {Obj("Object", e) : e \in EntrySeqs(Keys, PropValues)}

\* the value and the schema of the test of diff
NumVal == Obj("Object", << <<"num", Str("aaa")>>, <<"val", Str("bbb")>> >>)
NumValSchema == Obj("Object", << <<"num", Number>>, <<"val", String>> >>)

NestedValues ==
    {Obj("Object", << <<"foo", x>> >>) :
        x \in {Obj("Object", << <<"bar", Num(23)>> >>),
               Obj("Object", << <<"bar", Str("s")>>, <<"foo", Num(1)>> >>),
               Arr(<<Num(1), Num(2)>>), Arr(<<Num(1), Str("a")>>), Null}}
    \cup {Arr(<<Obj("Object", << <<"foo", Num(1)>> >>), Obj("Object", << <<"foo", Str("foo")>> >>)>>),
          Arr(<<Arr(<<Str("A"), Num(2)>>), Arr(<<Str("A")>>)>>)}

Values == AtomValues \cup ArrayValues \cup ObjectValues \cup NestedValues \cup {NumVal}

LeafSchemas ==
    {String, Number, Boolean, Date, Array, Foo,
     Str("foo"), Num(42), Bool(TRUE), Null, Undefined, NaN,
     TypeofIs("string"), TypeofIs("number"), isArray, ArrayIsArray, unknown}

ItemSchemas == {String, Number}

ArraySchemas ==
    {Arr(x) : x \in SeqsUpTo(ItemSchemas, MaxTuple)}
    \cup {Arr(<<String, Number, Date>>), Arr(<<String, Number, String>>),
          Arr(<<String, Undefined>>), Arr(<<Date>>)}

PropSchemas == {Number, String, optional(String)}

ObjectSchemas == {Obj("Object", e) : e \in EntrySeqs(Keys, PropSchemas)}

GuardSchemas ==
    {union(<<String, Number>>), union(<<Str("foo"), Str("bar")>>), union(<<Boolean, Number>>),
     optional(String), typeGuard(String), typeGuard(Arr(<<Number>>)),
     record(String, Number), record(String, String), record(String, unknown)}

NestedSchemas ==
    {Obj("Object", << <<"foo", x>> >>) :
        x \in {Obj("Object", << <<"bar", Number>> >>),
               Obj("Object", << <<"bar", Number>>, <<"foo", Number>> >>),
               Arr(<<Number>>), Arr(<<Number, Number>>),
               union(<<String, Number>>), record(String, unknown),
               optional(Obj("Object", << <<"bar", Number>> >>))}}
    \cup {Arr(<<Obj("Object", << <<"foo", Number>> >>)>>),
          Arr(<<Arr(<<String, Number>>)>>)}

\* values that are no schema of the Schema type
MalformedSchemas == {Sym(1), Sym(2), DateInst}

\* function (v) { return Array.isArray(v) } written in the call itself: a
\* function expression has a prototype, and without a binding its name is ""
anonymousIsArray == Fn("anonymous", <<>>, TRUE, [k |-> "isArray"])
\* function _isArray(v) { return Array.isArray(v) }: the name starts with no letter
underscoreIsArray ==
    Fn("_isArray", <<"_", "i", "s", "A", "r", "r", "a", "y">>, TRUE, [k |-> "isArray"])

\* predicates written as function expressions and declarations
FunctionSchemas == {anonymousIsArray, underscoreIsArray}

Schemas ==
    LeafSchemas \cup ArraySchemas \cup ObjectSchemas \cup GuardSchemas
    \cup NestedSchemas \cup MalformedSchemas \cup FunctionSchemas \cup {NumValSchema}

\* guards made by the combinators of src/src/index.ts
GuardSchemas_index ==
    {union_index(<<String, Number>>), union_index(<<Boolean, Number>>),
     optional_index(String), typeGuard_index(String), typeGuard_index(Arr(<<Number>>)),
     Obj("Object", << <<"foo", optional_index(String)>> >>),
     Obj("Object", << <<"foo", union_index(<<String, Number>>)>> >>)}

\* the root paths diff is called with
Paths == {RootPath, "data"}

UnionSchemas == {String, Number, Str("foo"), Undefined}
UnionArgs == SeqsUpTo(UnionSchemas, MaxUnion)

RecordKeySchemas == {String, Str("foo"), Number}
RecordValueSchemas == {String, Number, unknown}

\* a predicate that throws, and a class with a lower-case name: isConstructor
\* takes it for a predicate, and calling a class without new throws
Throws == Fn("arrow", <<>>, FALSE, [k |-> "throws"])
fooClass == Fn("foo", <<"f", "o", "o">>, TRUE, [k |-> "class"])

\* (v) => v: a predicate that returns its argument, no boolean
Identity == Fn("arrow", <<>>, FALSE, [k |-> "identity"])

ThrowingSchemas ==
    {Throws, fooClass, Identity,
     Obj("Object", << <<"foo", Throws>> >>),
     Obj("Object", << <<"foo", String>>, <<"bar", Throws>> >>),
     Arr(<<Throws>>), Arr(<<String, Throws>>),
     union(<<String, Throws>>), union(<<Throws, String>>),
     optional(Throws), typeGuard(Throws), record(String, Throws)}

\* objects with a property whose getter throws
GetterValues ==
    {Obj("Object", << <<"foo", Getter>> >>),
     Obj("Object", << <<"foo", Str("foo")>>, <<"bar", Getter>> >>),
     Arr(<<Obj("Object", << <<"foo", Getter>> >>)>>)}

AnyValues == Values \cup GetterValues
AnySchemas == Schemas \cup ThrowingSchemas
AnyUnionArgs == UnionArgs \cup {<<String, Throws>>, <<Throws, String>>, <<Throws>>}

----------------------------------------------------------------------------
(* The operations of the module.  A call is made from the idle state (op =  *)
(* "none") with inputs of its own; op, value, schema and path then hold the *)
(* call and out its outcome, until the call returns.                        *)

Init ==
    /\ op = "none"
    /\ value = Undefined
    /\ schema = Undefined
    /\ path = RootPath
    /\ out = Ret(Undefined)
    /\ heap = <<>>
    /\ stack = <<>>

\* is(v, s)
CallIs(VS, SS) ==
    /\ op = "none"
    /\ \E v \in VS, s \in SS :
        /\ op' = "is"
        /\ value' = v
        /\ schema' = s
        /\ path' = RootPath
        /\ out' = is(v, s)
        /\ UNCHANGED <<heap, stack>>

\* diff(v, s, p)
CallDiff(VS, SS) ==
    /\ op = "none"
    /\ \E v \in VS, s \in SS, p \in Paths :
        /\ op' = "diff"
        /\ value' = v
        /\ schema' = s
        /\ path' = p
        /\ out' = diff(v, s, p)
        /\ UNCHANGED <<heap, stack>>

\* assert(v, s)
CallAssert(VS, SS) ==
    /\ op = "none"
    /\ \E v \in VS, s \in SS :
        /\ op' = "assert"
        /\ value' = v
        /\ schema' = s
        /\ path' = RootPath
        /\ out' = assert(v, s)
        /\ UNCHANGED <<heap, stack>>

\* union(...ss)(v)
CallUnion(VS, US) ==
    /\ op = "none"
    /\ \E v \in VS, ss \in US :
        /\ op' = "union"
        /\ value' = v
        /\ schema' = union(ss)
        /\ path' = RootPath
        /\ out' = Call(union(ss), v)
        /\ UNCHANGED <<heap, stack>>

\* is(v, optional(s))
CallOptional(VS, SS) ==
    /\ op = "none"
    /\ \E v \in VS, s \in SS :
        /\ op' = "optional"
        /\ value' = v
        /\ schema' = optional(s)
        /\ path' = RootPath
        /\ out' = is(v, optional(s))
        /\ UNCHANGED <<heap, stack>>

\* record(ks, vs)(v)
CallRecord(VS, KS, WS) ==
    /\ op = "none"
    /\ \E v \in VS, ks \in KS, vs \in WS :
        /\ op' = "record"
        /\ value' = v
        /\ schema' = record(ks, vs)
        /\ path' = RootPath
        /\ out' = Call(record(ks, vs), v)
        /\ UNCHANGED <<heap, stack>>

\* typeGuard(s)(v)
CallTypeGuard(VS, SS) ==
    /\ op = "none"
    /\ \E v \in VS, s \in SS :
        /\ op' = "typeGuard"
        /\ value' = v
        /\ schema' = typeGuard(s)
        /\ path' = RootPath
        /\ out' = Call(typeGuard(s), v)
        /\ UNCHANGED <<heap, stack>>

\* is(v, s) of src/src/index.ts
CallIs_index(VS, SS) ==
    /\ op = "none"
    /\ \E v \in VS, s \in SS :
        /\ op' = "is@index"
        /\ value' = v
        /\ schema' = s
        /\ path' = RootPath
        /\ out' = is_index(v, s)
        /\ UNCHANGED <<heap, stack>>

\* assert(v, s) of src/src/index.ts
CallAssert_index(VS, SS) ==
    /\ op = "none"
    /\ \E v \in VS, s \in SS :
        /\ op' = "assert@index"
        /\ value' = v
        /\ schema' = s
        /\ path' = RootPath
        /\ out' = assert_index(v, s)
        /\ UNCHANGED <<heap, stack>>

\* the call returns to its caller: the module keeps no state between calls
Return ==
    /\ op # "none"
    /\ op' = "none"
    /\ value' = Undefined
    /\ schema' = Undefined
    /\ path' = RootPath
    /\ out' = Ret(Undefined)
    /\ UNCHANGED <<heap, stack>>

Next ==
    \/ Return
    \/ CallIs(Values, Schemas)
    \/ CallDiff(Values, Schemas)
    \/ CallAssert(Values, Schemas)
    \/ CallUnion(Values, UnionArgs)
    \/ CallOptional(Values, LeafSchemas)
    \/ CallRecord(Values, RecordKeySchemas, RecordValueSchemas)
    \/ CallTypeGuard(Values, LeafSchemas \cup ArraySchemas)
    \/ CallIs_index(Values, Schemas \cup GuardSchemas_index)
    \/ CallAssert_index(Values, Schemas \cup GuardSchemas_index)

Spec == Init /\ [][Next]_vars

\* the same calls, with schemas and values whose own code throws among the inputs
NextAny ==
    \/ Return
    \/ CallIs(AnyValues, AnySchemas)
    \/ CallDiff(AnyValues, AnySchemas)
    \/ CallAssert(AnyValues, AnySchemas)
    \/ CallUnion(AnyValues, AnyUnionArgs)
    \/ CallOptional(AnyValues, LeafSchemas \cup {Throws})
    \/ CallRecord(AnyValues, RecordKeySchemas, RecordValueSchemas \cup {Throws})
    \/ CallTypeGuard(AnyValues, LeafSchemas \cup ArraySchemas \cup {Throws})
    \/ CallIs_index(AnyValues, AnySchemas \cup GuardSchemas_index)
    \/ CallAssert_index(AnyValues, AnySchemas \cup GuardSchemas_index)

SpecAny == Init /\ [][NextAny]_vars

----------------------------------------------------------------------------
(* The calls of diff, one at a time.  The operators above give the result   *)
(* of a call; here the call stack is spelled out, one frame per active call *)
(* of diff, so that the depth of the recursion and its end are states.      *)
(* Values may be cyclic: objects and arrays then live in the heap, and a    *)
(* property or element holds a reference to one.                            *)

\* most frames the stack holds
MaxDepth == 6

\* a reference to the object or array at address a of the heap
Ref(a) == [t |-> "ref", a |-> a]

\* the object, array or primitive a value stands for
Deref(h, v) == IF v.t = "ref" THEN h[v.a] ELSE v

\* the frame of a call diff(v, sch, p): pc is where the call is, i the
\* position of flatMap or some (1-based), acc the mismatches so far
Frame(v, sch, p) ==
    [v |-> v, sch |-> sch, p |-> p, pc |-> "enter", i |-> 1, acc |-> <<>>]

\* the guards of typeGuard and union: calling one calls is, and so diff
IsGuard(sch) ==
    /\ TypeOf(sch) = "function"
    /\ ~isConstructor(sch)
    /\ sch.call.k \in {"typeGuard", "union"}

\* the schemas a guard hands to is, in order
GuardSchemasOf(sch) ==
    IF sch.call.k = "union" THEN sch.call.schemas ELSE <<sch.call.schema>>

\* where diff(v, sch, p) goes: over the elements of v ("items"), over the
\* keys of sch ("keys"), into a guard ("some"), or to a result with no
\* further call of diff ("leaf")
Branch(v, sch) ==
    IF StrictEq(sch, String) \/ StrictEq(sch, Number) \/ StrictEq(sch, Boolean) THEN "leaf"
    ELSE IF IsArray(sch)
         THEN IF IsArray(v) /\ Len(sch.items) > 0 THEN "items" ELSE "leaf"
    ELSE IF TypeOf(sch) = "object" /\ ToBoolean(sch)
         THEN IF ToBoolean(v) /\ TypeOf(v) = "object" THEN "keys" ELSE "leaf"
    ELSE IF IsGuard(sch) THEN "some"
    ELSE "leaf"

\* the frame on top of the stack: the call that is running
Top == stack[Len(stack)]

\* the stack with its top frame replaced by f
SetTop(f) == [stack EXCEPT ![Len(stack)] = f]

\* the frame f of a call about to return the mismatches r
Returning(f, r) == [f EXCEPT !.pc = "ret", !.acc = r]

\* the calling frame par after a call it made returned the mismatches r:
\* flatMap appends them and goes on; some stops at the first empty r
Resume(par, r) ==
    IF par.pc = "some"
    THEN IF r = <<>> THEN Returning(par, t(TRUE, par.p)) ELSE [par EXCEPT !.i = @ + 1]
    ELSE [par EXCEPT !.acc = @ \o r, !.i = @ + 1]

Running == op \in {"run_is", "run_diff"}
Ran == op \in {"ran_is", "ran_diff"}

\* an exception leaves every active call: nothing in the module catches
Unwind(r) ==
    /\ stack' = <<>>
    /\ out' = r
    /\ op' = IF op = "run_is" THEN "ran_is" ELSE "ran_diff"

\* is(v, s) or diff(v, s, p) is called on the value root of the heap h
Start(RS, SS) ==
    /\ op = "none"
    /\ \E r \in RS, s \in SS, p \in Paths, o \in {"run_is", "run_diff"} :
        /\ o = "run_is" => p = RootPath
        /\ op' = o
        /\ value' = r.root
        /\ heap' = r.heap
        /\ schema' = s
        /\ path' = p
        /\ stack' = <<Frame(r.root, s, p)>>
        /\ out' = Ret(Undefined)

\* the running call dispatches on its schema
Enter ==
    /\ Running /\ stack # <<>> /\ Top.pc = "enter"
    /\ LET v == Deref(heap, Top.v)
           b == Branch(v, Top.sch)
           r == diff(v, Top.sch, Top.p)
       IN IF b # "leaf"
          THEN stack' = SetTop([Top EXCEPT !.pc = b]) /\ UNCHANGED <<op, out>>
          ELSE IF r.thrown THEN Unwind(r)
          ELSE stack' = SetTop(Returning(Top, r.val)) /\ UNCHANGED <<op, out>>
    /\ UNCHANGED <<value, schema, path, heap>>

\* value.flatMap((v, i) => diff(v, schema[i] or schema[0], `${path}[${i}]`)):
\* the next element, or the end of the array
NextItem ==
    /\ Running /\ stack # <<>> /\ Top.pc = "items"
    /\ LET v == Deref(heap, Top.v)
           tuple == Len(Top.sch.items) > 1
       IN IF Top.i > Len(v.items)
          THEN stack' = SetTop(Returning(Top,
                   IF tuple /\ Top.acc = <<>>
                   THEN t(Len(v.items) = Len(Top.sch.items), Top.p)
                   ELSE Top.acc))
          ELSE IF v.items[Top.i] = Hole
          THEN stack' = SetTop([Top EXCEPT !.i = @ + 1])
          ELSE /\ Len(stack) < MaxDepth
               /\ stack' = Append(stack, Frame(v.items[Top.i],
                                               childSchema(Top.sch, tuple, Top.i),
                                               itemPath(Top.p, Top.i)))
    /\ UNCHANGED <<op, value, schema, path, out, heap>>

\* Object.keys(schema).flatMap((k) => diff(value[k], schema[k], `${path}.${k}`)):
\* the next key, or the end of the keys
NextKey ==
    /\ Running /\ stack # <<>> /\ Top.pc = "keys"
    /\ LET v == Deref(heap, Top.v)
           keys == ObjectKeys(Top.sch)
           vk == Get(v, keys[Top.i])
           sk == Get(Top.sch, keys[Top.i])
       IN IF Top.i > Len(keys)
          THEN stack' = SetTop(Returning(Top, Top.acc)) /\ UNCHANGED <<op, out>>
          ELSE IF vk.thrown THEN Unwind(vk)
          ELSE /\ Len(stack) < MaxDepth
               /\ stack' = Append(stack, Frame(vk.val, sk.val, keyPath(Top.p, keys[Top.i])))
               /\ UNCHANGED <<op, out>>
    /\ UNCHANGED <<value, schema, path, heap>>

\* schemas.some((schema) => is(v, schema)) inside a guard: the next schema,
\* or the end of the schemas
NextSchema ==
    /\ Running /\ stack # <<>> /\ Top.pc = "some"
    /\ LET ss == GuardSchemasOf(Top.sch)
       IN IF Top.i > Len(ss)
          THEN stack' = SetTop(Returning(Top, t(FALSE, Top.p)))
          ELSE /\ Len(stack) < MaxDepth
               /\ stack' = Append(stack, Frame(Top.v, ss[Top.i], RootPath))
    /\ UNCHANGED <<op, value, schema, path, out, heap>>

\* the running call returns: to the call that made it, or to the caller of
\* is or diff
ReturnFrame ==
    /\ Running /\ stack # <<>> /\ Top.pc = "ret"
    /\ LET n == Len(stack)
       IN IF n = 1
          THEN /\ stack' = <<>>
               /\ out' = IF op = "run_is" THEN Ret(Top.acc = <<>>) ELSE Ret(Top.acc)
               /\ op' = IF op = "run_is" THEN "ran_is" ELSE "ran_diff"
          ELSE /\ stack' = Append(SubSeq(stack, 1, n - 2), Resume(stack[n - 1], Top.acc))
               /\ UNCHANGED <<op, out>>
    /\ UNCHANGED <<value, schema, path, heap>>

\* the caller has the result: the module keeps no state between calls
Finish ==
    /\ Ran
    /\ op' = "none"
    /\ value' = Undefined
    /\ schema' = Undefined
    /\ path' = RootPath
    /\ out' = Ret(Undefined)
    /\ heap' = <<>>
    /\ stack' = <<>>

\* a step of the running call
Step == Enter \/ NextItem \/ NextKey \/ NextSchema \/ ReturnFrame

\* a value of a run: the heap and the root value
Rooted(h, r) == [heap |-> h, root |-> r]

\* const a = {}; a.foo = a
CyclicObject == Rooted(<<Obj("Object", << <<"foo", Ref(1)>> >>)>>, Ref(1))
\* const a = []; a.push(a)
CyclicArray == Rooted(<<Arr(<<Ref(1)>>)>>, Ref(1))
\* const a = [1]; a.push(a)
CyclicTail == Rooted(<<Arr(<<Num(1), Ref(1)>>)>>, Ref(1))
\* const a = {bar: 1}, b = {foo: a}; a.foo = b
CyclicPair ==
    Rooted(<<Obj("Object", << <<"bar", Num(1)>>, <<"foo", Ref(2)>> >>),
             Obj("Object", << <<"foo", Ref(1)>> >>)>>, Ref(1))
\* const a = {foo: []}; a.foo.push(a)
CyclicMixed ==
    Rooted(<<Obj("Object", << <<"foo", Ref(2)>> >>), Arr(<<Ref(1)>>)>>, Ref(1))

CyclicValues == {CyclicObject, CyclicArray, CyclicTail, CyclicPair, CyclicMixed}

\* values nested deeper than the schemas of the runs
DeepValues ==
    {Obj("Object", << <<"foo", Obj("Object", << <<"foo", Obj("Object", << <<"foo",
         Obj("Object", << <<"foo", Num(1)>> >>)>> >>)>> >>)>> >>),
     Arr(<<Arr(<<Arr(<<Arr(<<Num(1)>>)>>)>>)>>),
     Arr(<<Num(1), Arr(<<Num(2), Arr(<<Num(3), Arr(<<Str("a")>>)>>)>>)>>),
     Obj("Object", << <<"foo", Arr(<<Obj("Object", << <<"foo", Arr(<<Num(1)>>)>> >>)>>)>> >>)}

RunValues ==
    CyclicValues
    \cup {Rooted(<<>>, v) : v \in DeepValues \cup AtomValues \cup NestedValues}
    \cup {Rooted(<<>>, Arr(x)) : x \in SeqsUpTo(ItemValues, 2)}

RunSchemas ==
    {Number, String, Str("foo"), Date, Array, isArray, unknown, Arr(<<>>), DateInst,
     Arr(<<Number>>), Arr(<<Arr(<<Number>>)>>), Arr(<<Arr(<<Arr(<<Number>>)>>)>>),
     Arr(<<Number, Arr(<<Number, Arr(<<Number>>)>>)>>), Arr(<<String, Number>>),
     Obj("Object", << <<"foo", Number>> >>),
     Obj("Object", << <<"foo", Obj("Object", << <<"foo", Number>> >>)>> >>),
     Obj("Object", << <<"foo", Obj("Object", << <<"foo", Obj("Object", <<>>)>> >>)>>,
                      <<"bar", Number>> >>),
     Obj("Object", << <<"foo", Arr(<<Obj("Object", << <<"foo", Array>> >>)>>)>> >>),
     union(<<String, Number>>), union(<<>>), optional(String), typeGuard(Arr(<<Number>>)),
     union(<<Arr(<<Number>>), Obj("Object", << <<"foo", unknown>> >>)>>),
     Obj("Object", << <<"foo", optional(Obj("Object", << <<"foo", isArray>> >>))>> >>),
     Arr(<<union(<<Number, Arr(<<union(<<Number, Array>>)>>)>>)>>),
     Throws, Obj("Object", << <<"foo", Obj("Object", << <<"foo", Throws>> >>)>> >>)}

NextRun ==
    \/ Start(RunValues, RunSchemas)
    \/ Enter
    \/ NextItem
    \/ NextKey
    \/ NextSchema
    \/ ReturnFrame
    \/ Finish

\* a call, once made, runs until it returns or throws: JavaScript runs it
\* synchronously, with nothing that suspends it
SpecRun == Init /\ [][NextRun]_vars /\ WF_vars(Step)

----------------------------------------------------------------------------
(* Properties. *)

\* the concatenation of a sequence of sequences
RECURSIVE Flatten(_)
Flatten(ss) == IF Len(ss) = 0 THEN <<>> ELSE Head(ss) \o Flatten(Tail(ss))

\* the elements of a sequence
Range(f) == {f[i] : i \in DOMAIN f}

\* the own property k of the object o, undefined when o has no such property
OwnOrUndefined(o, k) ==
    IF \E j \in 1..Len(o.entries) : o.entries[j][1] = k
    THEN o.entries[CHOOSE j \in 1..Len(o.entries) : o.entries[j][1] = k][2]
    ELSE Undefined

\* the object o without the properties that the object schema sch does not name
WithoutExcess(o, sch) ==
    Obj(o.class, SelectSeq(o.entries,
            LAMBDA e : \E j \in 1..Len(sch.entries) : sch.entries[j][1] = e[1]))

\* the mismatches of the elements that the array v holds against their
\* schemas, in ascending index order: schema[i] if tuple, schema[0] if not
ElementMismatches(v, sch, p, tuple) ==
    Flatten([i \in 1..Len(v.items) |->
        IF v.items[i] = Hole THEN <<>>
        ELSE diff(v.items[i],
                  IF tuple THEN (IF i <= Len(sch.items) THEN sch.items[i] ELSE Undefined)
                  ELSE sch.items[1],
                  p \o "[" \o Digits[i] \o "]").val])

\* C1: is(v, s) returns true if and only if diff(v, s) returns the empty
\* sequence, for every value v and schema s.
C1_IsIffDiffEmpty ==
    op = "is" =>
        /\ ~diff(value, schema, RootPath).thrown
        /\ out = Ret(diff(value, schema, RootPath).val = <<>>)

\* C1 witness: is has returned false for a value with two mismatches, and
\* (in the same call) the outcome is a boolean.
C1_Witness ==
    /\ op = "is"
    /\ out = Ret(FALSE)
    /\ Len(diff(value, schema, RootPath).val) = 2

\* the t tags of the values whose typeof a marker names
MarkerTags(m) ==
    CASE m = String -> {"string"}
      [] m = Number -> {"number", "nan"}
      [] m = Boolean -> {"boolean"}

\* C2: for the markers String, Number and Boolean, is(v, marker) is true
\* exactly when typeof v is "string", "number" or "boolean": no coercion, and
\* a wrapper object does not match, the marker rule coming before instanceof.
C2_MarkersMatchTypeof ==
    (op = "is" /\ schema \in {String, Number, Boolean}) =>
        out = Ret(value.t \in MarkerTags(schema))

\* C2 witness: is(new String("foo"), String) has returned false.
C2_Witness ==
    /\ op = "is"
    /\ schema = String
    /\ value = WrapperString
    /\ out = Ret(FALSE)

\* C3: for an object schema S, diff(v, S, p) is [p] if v is null or not of
\* typeof "object"; otherwise it is the concatenation, in the key order of S,
\* of diff(v[k], S[k], p.k) over exactly the keys of S, a missing key read as
\* undefined; properties of v that S does not name never change the result.
C3_ObjectSchemaKeysOnly ==
    (op = "diff" /\ schema.t = "object") =>
        IF value.t \notin {"object", "array"}
        THEN out = Ret(<<path>>)
        ELSE /\ out = Ret(Flatten([i \in 1..Len(schema.entries) |->
                        diff(IF value.t = "object"
                             THEN OwnOrUndefined(value, schema.entries[i][1])
                             ELSE Get(value, schema.entries[i][1]).val,
                             schema.entries[i][2],
                             path \o "." \o schema.entries[i][1]).val]))
             /\ value.t = "object" =>
                    out = diff(WithoutExcess(value, schema), schema, path)

\* C3 witness: diff of a value with a property the one-key schema does not
\* name has returned no mismatch.
C3_Witness ==
    /\ op = "diff"
    /\ schema = Obj("Object", << <<"foo", Number>> >>)
    /\ value.t = "object"
    /\ Len(value.entries) = 2
    /\ out = Ret(<<>>)

\* C4: tuple mode is content before length: if an element of v fails its
\* positional schema, diff returns exactly the positional mismatches and no
\* entry for the length; only if all pass is the length compared, giving [p]
\* if the lengths differ and [] if not.
C4_TupleContentBeforeLength ==
    (op = "diff" /\ schema.t = "array" /\ Len(schema.items) > 1 /\ value.t = "array") =>
        IF ElementMismatches(value, schema, path, TRUE) # <<>>
        THEN /\ out = Ret(ElementMismatches(value, schema, path, TRUE))
             /\ path \notin Range(out.val)
        ELSE out = Ret(IF Len(value.items) # Len(schema.items) THEN <<path>> ELSE <<>>)

\* C4 witness: diff of an array that is shorter than the tuple schema and
\* whose element fails has returned the element's path alone.
C4_Witness ==
    /\ op = "diff"
    /\ schema = Arr(<<String, Number>>)
    /\ value = Arr(<<Num(2)>>)
    /\ out = Ret(<<path \o "[0]">>)

\* C5: homogeneous mode: for an array v of any length diff(v, [E], p) is the
\* concatenation in ascending index order of diff(v[i], E, p[i]), so
\* is([], [E]) is true and is(v, [E]) is true exactly when every element of v
\* conforms to E; a value that is no array yields [p].
C5_HomogeneousArray ==
    /\ (op = "diff" /\ schema.t = "array" /\ Len(schema.items) = 1) =>
          IF value.t # "array" THEN out = Ret(<<path>>)
          ELSE out = Ret(ElementMismatches(value, schema, path, FALSE))
    /\ (op = "is" /\ schema.t = "array" /\ Len(schema.items) = 1 /\ value.t = "array") =>
          out = Ret(\A i \in 1..Len(value.items) :
                        value.items[i] # Hole =>
                            diff(value.items[i], schema.items[1], RootPath).val = <<>>)

\* C5 witness: diff([1, 2, "3"], [Number]) has returned the path of index 2.
C5_Witness ==
    /\ op = "diff"
    /\ schema = Arr(<<Number>>)
    /\ value = Arr(<<Num(1), Num(2), Str("3")>>)
    /\ out = Ret(<<path \o "[2]">>)

\* the permutations of 1..n
Perms(n) == {f \in [1..n -> 1..n] : \A i, j \in 1..n : f[i] = f[j] => i = j}

\* C6: union(s1, ..., sn)(v) is true if and only if is(v, si) is true for at
\* least one i, and the result is the same for every permutation of s1..sn.
C6_UnionAnyOrderFree ==
    op = "union" =>
        /\ out = Ret(Bool(\E i \in 1..Len(schema.call.schemas) :
                              diff(value, schema.call.schemas[i], RootPath).val = <<>>))
        /\ \A f \in Perms(Len(schema.call.schemas)) :
              Call(union([i \in 1..Len(schema.call.schemas) |-> schema.call.schemas[f[i]]]),
                   value) = out

\* C6 witness: a union of two schemas has returned true for a value that the
\* first schema rejects and the second accepts.
C6_Witness ==
    /\ op = "union"
    /\ Len(schema.call.schemas) = 2
    /\ diff(value, schema.call.schemas[1], RootPath).val # <<>>
    /\ diff(value, schema.call.schemas[2], RootPath).val = <<>>
    /\ out = Ret(Bool(TRUE))

\* { foo: optional(String) }
FooOptionalString == Obj("Object", << <<"foo", optional(String)>> >>)

\* C7: is(v, optional(S)) is true if and only if v is undefined or is(v, S)
\* is true; the optionality tag never changes the result; {foo: optional(String)}
\* accepts {foo: "x"}, {foo: undefined} and {} and rejects {foo: 1}.
C7_OptionalIsUnionWithUndefined ==
    /\ op = "optional" =>
          /\ out = Ret(value = Undefined
                       \/ diff(value, schema.call.schemas[1], RootPath).val = <<>>)
          /\ out = is(value, union(<<schema.call.schemas[1], Undefined>>))
    /\ (op = "is" /\ schema = FooOptionalString /\ value.t = "object") =>
          out = Ret(OwnOrUndefined(value, "foo").t \in {"undefined", "string"})

\* C7 witness: is({}, {foo: optional(String)}) has returned true.
C7_Witness ==
    /\ op = "is"
    /\ schema = FooOptionalString
    /\ value = Obj("Object", <<>>)
    /\ out = Ret(TRUE)

\* C8: record(K, V) accepts a key/value container exactly when every own
\* enumerable key conforms to K and every value to V: {} always, and never a
\* container with a failing entry; assert({foo: "foo"}, record(String, Number))
\* throws a TypeError.
C8_RecordEveryEntry ==
    /\ (op = "record" /\ value.t = "object" /\ value.class = "Object") =>
          out = Ret(Bool(\A j \in 1..Len(value.entries) :
                      /\ diff(Str(value.entries[j][1]), schema.call.key, RootPath).val = <<>>
                      /\ diff(value.entries[j][2], schema.call.val, RootPath).val = <<>>))
    /\ (op = "assert" /\ schema = record(String, Number)
            /\ value = Obj("Object", << <<"foo", Str("foo")>> >>)) =>
          (out.thrown /\ out.err.name = "TypeError")

\* C8 witness: record(String, Number) has rejected {foo: "foo"}.
C8_Witness ==
    /\ op = "record"
    /\ schema = record(String, Number)
    /\ value = Obj("Object", << <<"foo", Str("foo")>> >>)
    /\ out = Ret(Bool(FALSE))

ThrowsWhenCalled(f) == f.t = "function" /\ f.call.k \in {"throws", "class"} /\ ~isConstructor(f)

\* whether the schema sch holds, at some depth, a function that throws when called
RECURSIVE HoldsThrowingCode(_)
HoldsThrowingCode(sch) ==
    CASE sch.t = "array" -> \E i \in 1..Len(sch.items) : HoldsThrowingCode(sch.items[i])
      [] sch.t = "object" -> \E i \in 1..Len(sch.entries) : HoldsThrowingCode(sch.entries[i][2])
      [] sch.t = "function" ->
            \/ ThrowsWhenCalled(sch)
            \/ sch.call.k = "union" /\ \E i \in 1..Len(sch.call.schemas) : HoldsThrowingCode(sch.call.schemas[i])
            \/ sch.call.k = "typeGuard" /\ HoldsThrowingCode(sch.call.schema)
            \/ sch.call.k = "record" /\ (HoldsThrowingCode(sch.call.key) \/ HoldsThrowingCode(sch.call.val))
      [] OTHER -> FALSE

\* whether the value v holds, at some depth, a property whose getter throws
RECURSIVE HoldsGetter(_)
HoldsGetter(v) ==
    CASE v.t = "array" -> \E i \in 1..Len(v.items) : HoldsGetter(v.items[i])
      [] v.t = "object" -> \E i \in 1..Len(v.entries) : HoldsGetter(v.entries[i][2])
      [] v.t = "getter" -> TRUE
      [] OTHER -> FALSE

\* the errors that the caller's own code throws
CallerErrors ==
    {PredicateError, GetterError,
     [name |-> "TypeError", message |-> "Class constructor cannot be invoked without 'new'"]}

\* C10 as stated: the matcher never throws: for every value and every schema,
\* schemas with caller-supplied predicates included, is returns a boolean
\* and diff a sequence of paths.
C10_NeverThrows ==
    /\ op \in {"is", "diff", "is@index"} => ~out.thrown
    /\ op = "is" /\ ~out.thrown => out.val \in BOOLEAN
    /\ op = "is@index" /\ ~out.thrown => out.val.t = "boolean"

\* C10 as amended: is and diff throw only what the caller's own code throws
\* while it is being matched (a predicate schema, a class with a lower-case
\* name called without new, a getter of the value); otherwise is returns a
\* boolean and diff a sequence of paths.  The is of src/src/index.ts returns
\* the result of a predicate that is the whole schema as it is, so there the
\* result is a boolean when the predicate returns one.
C10_ThrowsOnlyCallerCode ==
    op \in {"is", "diff", "is@index"} =>
        IF out.thrown
        THEN /\ out.err \in CallerErrors
             /\ HoldsThrowingCode(schema) \/ HoldsGetter(value)
        ELSE IF op = "is" THEN out.val \in BOOLEAN
        ELSE IF op = "is@index"
             THEN \/ out.val.t = "boolean"
                  \/ schema = Identity /\ out.val = value
        ELSE \A i \in 1..Len(out.val) : out.val[i] \in STRING

\* C10 witness: is has thrown the error of a predicate nested in an object schema.
C10_Witness ==
    /\ op = "is"
    /\ schema = Obj("Object", << <<"foo", String>>, <<"bar", Throws>> >>)
    /\ value.t = "object"
    /\ out = Throw(PredicateError)

\* C11: a malformed schema (a symbol, an exotic object such as a Date
\* instance) matches nothing: is(v, schema) is false for every value v, and
\* nothing is thrown.
C11_MalformedMatchesNothing ==
    op = "is" /\ schema \in MalformedSchemas => out = Ret(FALSE)

\* whether c is an uppercase letter
IsUpperLetter(c) == \E i \in 1..Len(Upper) : Upper[i] = c

\* the functions C12 takes for classes
NamedLikeClass(f) == f.proto /\ IsUpperLetter(CharAt0(f.name))

\* C12: a function schema that is no primitive marker is checked with
\* value instanceof f if and only if f.prototype.constructor is f and its
\* name starts with an uppercase letter; every other function (arrow,
\* lower-case name, anonymous, name starting with a non-letter) is called as
\* a predicate.
C12_ClassIffUppercaseLetter ==
    op = "is" /\ schema.t = "function" /\ schema \notin {String, Number, Boolean} =>
        IF NamedLikeClass(schema)
        THEN out = Ret(InstanceOf(value, schema))
        ELSE out = Ret(ToBoolean(Call(schema, value).val))

\* C13: for a finite schema and any value, a value with reference cycles
\* included, a call of is or diff that has been made ends: it returns (or
\* throws what a predicate throws); the descent follows the schema, never the
\* value beyond it.
C13_Terminates == Running ~> Ran

\* C13 witness: diff of const a = {}; a.foo = a against {foo: {foo: Number}}
\* has returned, having followed the cycle twice and no further.
C13_Witness ==
    /\ op = "ran_diff"
    /\ heap = CyclicObject.heap
    /\ schema = Obj("Object", << <<"foo", Obj("Object", << <<"foo", Number>> >>)>> >>)
    /\ out = Ret(<<"value.foo.foo">>)

\* the largest number of a finite set of naturals, 0 for the empty set
MaxOf(S) == IF S = {} THEN 0 ELSE CHOOSE m \in S : \A n \in S : n <= m

\* the nesting depth of a schema: 1 for a schema that holds no schema, one
\* more than its deepest member for an array schema, an object schema and a
\* guard of typeGuard, union or optional
RECURSIVE SchemaDepth(_)
SchemaDepth(sch) ==
    IF StrictEq(sch, String) \/ StrictEq(sch, Number) \/ StrictEq(sch, Boolean) THEN 1
    ELSE IF IsArray(sch)
         THEN 1 + MaxOf({SchemaDepth(sch.items[i]) : i \in 1..Len(sch.items)})
    ELSE IF TypeOf(sch) = "object" /\ ToBoolean(sch)
         THEN 1 + MaxOf({SchemaDepth(sch.entries[i][2]) : i \in 1..Len(sch.entries)})
    ELSE IF IsGuard(sch)
         THEN 1 + MaxOf({SchemaDepth(GuardSchemasOf(sch)[i]) :
                            i \in 1..Len(GuardSchemasOf(sch))})
    ELSE 1

\* C18: at every point of a call of is or diff, the number of calls of diff
\* that are active is at most the nesting depth of the schema, whatever the
\* depth of the value.
C18_DepthAtMostSchemaDepth ==
    Running => Len(stack) <= SchemaDepth(schema)

\* C18 witness: four calls are active for [[[Number]]], the depth of that
\* schema, and the innermost one holds an array: the value nests deeper than
\* the schema and is followed no further.
C18_Witness ==
    /\ Running
    /\ schema = Arr(<<Arr(<<Arr(<<Number>>)>>)>>)
    /\ Len(stack) = 4
    /\ SchemaDepth(schema) = 4
    /\ Top.sch = Number
    /\ IsArray(Deref(heap, Top.v))

\* the schemas C14 is about: markers, literals, array schemas, object
\* schemas, and properties tagged by optional
RECURSIVE InTypedScope(_, _)
InTypedScope(s, asProp) ==
    IF IsArray(s) THEN \A i \in 1..Len(s.items) : InTypedScope(s.items[i], FALSE)
    ELSE IF s.t = "object"
         THEN s.class = "Object"
              /\ \A i \in 1..Len(s.entries) : InTypedScope(s.entries[i][2], TRUE)
    ELSE IF s.t = "function"
         THEN \/ s \in {String, Number, Boolean}
              \/ /\ asProp
                 /\ "optional" \in DOMAIN s
                 /\ InTypedScope(s.call.schemas[1], FALSE)
    ELSE s.t \in {"string", "number", "boolean", "null", "undefined"}

\* the values with no empty slot, at any depth
RECURSIVE Dense(_)
Dense(v) ==
    CASE v.t = "array" -> \A i \in 1..Len(v.items) : Dense(v.items[i])
      [] v.t = "object" -> \A i \in 1..Len(v.entries) : Dense(v.entries[i][2])
      [] OTHER -> v.t # "hole"

\* C14: for a schema S built from markers, literals, array schemas of
\* length 0, 1 and more, object schemas and optional-tagged properties, a
\* value is of the type TypeFromSchema<S> if and only if is(v, S) is true.
C14_TypeAcceptsWhatMatcherAccepts ==
    op = "is" /\ InTypedScope(schema, FALSE) /\ Dense(value) =>
        (out = Ret(TRUE) <=> Inhabits(value, TypeFromSchema(SchemaType(schema))))

\* the literal schemas: a string, a number, a boolean, null, undefined
IsLiteral(s) == s.t \in {"string", "number", "nan", "boolean", "null", "undefined"}

\* C15: for a literal schema L, is(v, L) is true if and only if v is the same
\* primitive value as L (NaN, like in ===, equals nothing); null and
\* undefined are distinct: is(undefined, null) and is(null, undefined) are
\* false, is(null, null) and is(undefined, undefined) are true.
C15_LiteralIsStrictEquality ==
    op = "is" /\ IsLiteral(schema) =>
        /\ out = Ret(value = schema /\ schema # NaN)
        /\ value = Undefined /\ schema = Null => out = Ret(FALSE)
        /\ value = Null /\ schema = Undefined => out = Ret(FALSE)
        /\ value = Null /\ schema = Null => out = Ret(TRUE)
        /\ value = Undefined /\ schema = Undefined => out = Ret(TRUE)

\* C15 witness: is(undefined, null) has returned false.
C15_Witness ==
    /\ op = "is"
    /\ value = Undefined
    /\ schema = Null
    /\ out = Ret(FALSE)

\* {foo: x}
FooOf(x) == Obj("Object", << <<"foo", x>> >>)

\* C16: typeGuard(s)(v) returns what is(v, s) returns, and the guard can be
\* used as a predicate schema, alone and nested in an object schema, with
\* the result of using s there.
C16_TypeGuardIsIs ==
    op = "typeGuard" =>
        /\ out = Ret(Bool(is(value, schema.call.schema).val))
        /\ is(value, schema) = is(value, schema.call.schema)
        /\ is(FooOf(value), FooOf(schema)) = is(FooOf(value), FooOf(schema.call.schema))

\* C16 witness: typeGuard([String, Number]) has accepted ["A", 2].
C16_Witness ==
    /\ op = "typeGuard"
    /\ schema = typeGuard(Arr(<<String, Number>>))
    /\ value = Arr(<<Str("A"), Num(2)>>)
    /\ out = Ret(Bool(TRUE))

\* the positions the descent of diff(v, s) comes to, each as the sequence of
\* its accessors from the root: an array index (from 0) or the position of a
\* key among the keys of the object schema (from 1)
RECURSIVE Nodes(_, _)
Nodes(v, s) ==
    {<<>>} \cup
    (IF Branch(v, s) = "items"
     THEN UNION {{<<i - 1>> \o a :
                    a \in Nodes(v.items[i], SchemaAt(s, IF Len(s.items) > 1 THEN i - 1 ELSE 0))} :
                 i \in {j \in 1..Len(v.items) : v.items[j] # Hole}}
     ELSE IF Branch(v, s) = "keys"
     THEN UNION {{<<k>> \o a :
                    a \in Nodes(Get(v, ObjectKeys(s)[k]).val, Get(s, ObjectKeys(s)[k]).val)} :
                 k \in 1..Len(ObjectKeys(s))}
     ELSE {})

\* the sub-value, the sub-schema and the accessor path at the position a
RECURSIVE At(_, _, _, _)
At(v, s, p, a) ==
    IF a = <<>> THEN [v |-> v, s |-> s, p |-> p]
    ELSE IF IsArray(s)
    THEN At(v.items[a[1] + 1], SchemaAt(s, IF Len(s.items) > 1 THEN a[1] ELSE 0),
            p \o "[" \o IntToStr(a[1]) \o "]", Tail(a))
    ELSE At(Get(v, ObjectKeys(s)[a[1]]).val, Get(s, ObjectKeys(s)[a[1]]).val,
            p \o "." \o ObjectKeys(s)[a[1]], Tail(a))

\* whether the schema fails at the node n itself: a schema with no descent
\* that the value does not match, or a tuple whose elements all match and
\* whose length differs
FailsAt(n) ==
    IF Branch(n.v, n.s) \in {"leaf", "some"} THEN is(n.v, n.s) = Ret(FALSE)
    ELSE /\ Branch(n.v, n.s) = "items"
         /\ Len(n.s.items) > 1
         /\ Len(n.v.items) # Len(n.s.items)
         /\ \A i \in 1..Len(n.v.items) :
               n.v.items[i] # Hole => is(n.v.items[i], SchemaAt(n.s, i - 1)) = Ret(TRUE)

\* a before b in depth-first order: schema key order, ascending index
RECURSIVE Before(_, _)
Before(a, b) ==
    /\ a # <<>> /\ b # <<>>
    /\ \/ a[1] < b[1]
       \/ a[1] = b[1] /\ Before(Tail(a), Tail(b))

\* the positions at which the schema of the call in progress fails
Failing == {a \in Nodes(value, schema) : FailsAt(At(value, schema, path, a))}

\* the position an entry of diff names
PositionOf(e) == CHOOSE a \in Failing : At(value, schema, path, a).p = e

\* C17: every entry of diff(v, s, p) is p followed by the accessors, ".key"
\* and "[index]", of the descent to a position where the schema fails; each
\* such position has one entry, and the entries are in depth-first order.
\* diff("abc", Number) is ["value"], and diff({num: "aaa", val: "bbb"},
\* {num: Number, val: String}) is ["value.num"].
C17_PathsNameFailingLeaves ==
    op = "diff" =>
        /\ \A i \in 1..Len(out.val) :
              \E a \in Failing : At(value, schema, path, a).p = out.val[i]
        /\ \A a \in Failing :
              \E i \in 1..Len(out.val) : At(value, schema, path, a).p = out.val[i]
        /\ Len(out.val) = Cardinality(Failing)
        /\ \A i, j \in 1..Len(out.val) :
              i < j => Before(PositionOf(out.val[i]), PositionOf(out.val[j]))
        /\ value = Str("abc") /\ schema = Number /\ path = RootPath
              => out = Ret(<<"value">>)
        /\ value = NumVal /\ schema = NumValSchema /\ path = RootPath
              => out = Ret(<<"value.num">>)

\* C17 witness: diff(["A", 2, "A"], [Number]) has named the two failing
\* elements, in ascending order.
C17_Witness ==
    /\ op = "diff"
    /\ value = Arr(<<Str("A"), Num(2), Str("A")>>)
    /\ schema = Arr(<<Number>>)
    /\ path = RootPath
    /\ out = Ret(<<"value[0]", "value[2]">>)

\* the schemas C19 is about: every function in them is a primitive marker, an
\* arrow function that returns a boolean, or a class with a capitalized name
RECURSIVE InSharedScope(_)
InSharedScope(s) ==
    CASE s.t = "array" -> \A i \in 1..Len(s.items) : InSharedScope(s.items[i])
      [] s.t = "object" -> \A i \in 1..Len(s.entries) : InSharedScope(s.entries[i][2])
      [] s.t = "function" ->
            \/ s.id = "arrow" /\ s.call.k \notin {"identity", "throws"}
                  /\ ~HoldsThrowingCode(s)
            \/ s.proto /\ IsUpperLetter(CharAt0(s.name))
      [] OTHER -> TRUE

\* the outcome of the is of src/src/index.ts and the outcome of the
\* diff-based is, for the call in progress
DirectOutcome == IF op = "is@index" THEN out ELSE is_index(value, schema)
DiffBasedOutcome == IF op = "is" THEN boolOf(out) ELSE boolOf(is(value, schema))

\* C19 as stated: for every value and every schema whose functions are arrow
\* predicates returning booleans or capitalized classes, the direct is and
\* the diff-based is return the same boolean.
C19_SameBoolean ==
    op \in {"is", "is@index"} /\ InSharedScope(schema) =>
        /\ ~DirectOutcome.thrown
        /\ DirectOutcome = DiffBasedOutcome

\* C19 as amended: they return the same boolean for every value whose
\* properties are read without an exception.  When a getter of the value
\* throws, either both throw its error, or the direct is has stopped at an
\* earlier mismatch and returns false where the diff-based is, which reads
\* every key of the schema, throws.
C19_SameBooleanUnlessGetter ==
    op \in {"is", "is@index"} /\ InSharedScope(schema) =>
        IF ~HoldsGetter(value)
        THEN /\ ~DirectOutcome.thrown
             /\ DirectOutcome = DiffBasedOutcome
        ELSE \/ DirectOutcome = DiffBasedOutcome
             \/ /\ DirectOutcome = Ret(Bool(FALSE))
                /\ DiffBasedOutcome = Throw(GetterError)

\* C19 witness: both reject ["A"] for the tuple [String, Number], the direct
\* is by the length, the diff-based is after the contents matched.
C19_Witness ==
    /\ op = "is@index"
    /\ schema = Arr(<<String, Number>>)
    /\ value = Arr(<<Str("A")>>)
    /\ out = Ret(Bool(FALSE))
    /\ diff(value, schema, RootPath) = Ret(<<"value">>)

====
